---- MODULE Spec2Model ----
(***************************************************************************)
(* StationBoard.py: a Tkinter departure board that polls the Darwin        *)
(* OpenLDBWS service.  The model covers the module-level main code, the    *)
(* two timer callbacks (update_display, DisplayApp.update_time), the two   *)
(* stop handlers and DisplayApp.display_info with its pools of ten labels. *)
(*                                                                         *)
(* Tkinter runs one callback at a time, so every callback is one action.   *)
(* An exception raised inside a callback that the main loop dispatched is  *)
(* reported by Tkinter and ends that callback only; an exception raised by *)
(* the module-level code before mainloop() ends the process.               *)
(***************************************************************************)
EXTENDS Integers, Sequences, FiniteSets, TLC

(* ------------------------------ bounds -------------------------------- *)

\* longest response whose entries are drawn freely from EntryKinds
MaxEntries == 2

(* ------------------------- program constants -------------------------- *)

\* each label pool is built with range(10)
NumLabels == 10

\* keycode of the Esc key tested by handle_keyevent
EscKeycode == 9

\* first grid row used for departures
FirstRow == 2

Slots == 0 .. (NumLabels - 1)

(* ------------------------------ texts --------------------------------- *)
\* A text is a pair <<what, n>>; None is Python's None, Empty is ''.

None == <<"None", 0>>
Empty == <<"", 0>>

stop_msg == "Stopping..."
InitialTitle == "tk"
LocationName == "Reading"

UnknownKeyMsg(key) == "Unknown data key '" \o key \o "'"

PrimaryKeys == <<"std", "destination", "platform", "etd", "length">>
PrimaryPools == <<"time_disp", "dest_disp", "plat_disp", "expt_disp", "cars_disp">>
Pools == {"time_disp", "dest_disp", "plat_disp", "expt_disp", "cars_disp",
          "cancelreason_disp", "delayreason_disp"}

(* ------------------------------ inputs -------------------------------- *)
\* One service item of a response.  "missing" names the one key the item
\* lacks ("none": all keys present).  Departure 2 has no platform.

Service(n, cancelled, cancelReason, delayReason, missing) ==
    [std |-> <<"std", n>>,
     destination |-> <<"destination", n>>,
     platform |-> IF n = 2 THEN None ELSE <<"platform", n>>,
     etd |-> <<"etd", n>>,
     length |-> <<"length", n>>,
     isCancelled |-> cancelled,
     cancelReason |-> cancelReason,
     delayReason |-> delayReason,
     missing |-> missing]

CancelText == <<"cancelReason", 1>>
DelayText == <<"delayReason", 1>>

\* the departures (std/destination/platform/etd/length) the inputs draw from
Departures == {1, 2}

Plain(n) == Service(n, FALSE, None, None, "none")

PlainKinds == {Plain(n) : n \in Departures}

ReasonKinds ==
    {Service(1, TRUE, CancelText, None, "none"),
     Service(1, TRUE, CancelText, DelayText, "none"),
     Service(1, TRUE, None, DelayText, "none"),
     Service(1, FALSE, None, DelayText, "none"),
     Service(1, FALSE, CancelText, DelayText, "none")}

\* items that lack a key: one that fails on the first lookup, one that fails
\* after the primary row and before the reason rows
MalformedKinds ==
    {Service(1, FALSE, None, None, "std"),
     Service(1, TRUE, CancelText, None, "isCancelled")}

SpecialKinds == ReasonKinds \cup MalformedKinds

RECURSIVE PlainLists(_)
PlainLists(n) ==
    IF n = 0 THEN {<<>>}
    ELSE LET shorter == PlainLists(n - 1)
         IN  shorter \cup {Append(s, x) : s \in {t \in shorter : Len(t) = n - 1},
                                          x \in PlainKinds}

\* lists of up to MaxEntries items: plain departures, the first item possibly special
ShortLists ==
    PlainLists(MaxEntries)
    \cup {<<x>> \o s : x \in SpecialKinds, s \in PlainLists(MaxEntries - 1)}

\* longer lists of one plain departure: past the configured rows, and one
\* item more than the label pools hold
LongLens == {MaxEntries + 1, NumLabels + 1}

ServiceLists == ShortLists \cup {[i \in 1 .. n |-> Plain(1)] : n \in LongLens}

\* A GetDepartureBoardResponse.  trainServices is "absent" (no such key),
\* "None", or "list" (then service is the list of items).
Board(ts, svcs, nrcc) ==
    [isNone |-> FALSE, trainServices |-> ts, service |-> svcs, nrccMessages |-> nrcc]

NoneGSBR == [isNone |-> TRUE, trainServices |-> "absent", service |-> <<>>,
             nrccMessages |-> FALSE]

Boards(nrccs) ==
    {Board("absent", <<>>, m) : m \in nrccs}
    \cup {Board("None", <<>>, m) : m \in nrccs}
    \cup {Board("list", s, m) : s \in ServiceLists, m \in nrccs}

\* What one call of client.service.GetDepartureBoard does: raise, or return.
Fault == [exception |-> TRUE, response |-> NoneGSBR]
Returned(g) == [exception |-> FALSE, response |-> g]

\* the first call: boards with and without service messages
FirstOutcomes == {Fault} \cup {Returned(g) : g \in {NoneGSBR} \cup Boards(BOOLEAN)}

\* timer-driven calls: every board carries service messages
TimerOutcomes == {Fault} \cup {Returned(g) : g \in {NoneGSBR} \cup Boards({TRUE})}

\* config['display']['rows']
RowsChoices == {MaxEntries}

\* StationBoard.ini: whether it can be opened, and which of the options the
\* program needs it holds
RequiredOptions == {"station.crs", "SOAP.key", "SOAP.wsdl"}
IniFiles == [readable : BOOLEAN, options : SUBSET RequiredOptions]

(* ------------------------------ state --------------------------------- *)

VARIABLES
    pc,              \* position of the module-level main code
    inifile,         \* StationBoard.ini as the program finds it
    rows,            \* config['display']['rows']
    Running,         \* the stop flag
    disp,            \* the seven label pools: text and grid state per slot
    statusbar,       \* text of the status bar
    statusbar_row,   \* grid row of the status bar
    title,           \* window title
    curtime,         \* the clock label: "" until update_time has set and gridded it
    refreshPending,  \* pending after(15000, update_display) callbacks
    clockPending,    \* pending after(1000, update_time) callbacks
    destroyed,       \* root.destroy() has run
    cycle,           \* history: the last update_display call, while the status bar still shows its text
    callsAfterStop,  \* history: service calls made while Running was False
    titleWrites,     \* history: calls of root.title(<new title>)
    dialogs,         \* history: messagebox.showinfo calls, by kind of refresh
    ticksAfterStop   \* history: update_time calls made while Running was False

vars == <<pc, inifile, rows, Running, disp, statusbar, statusbar_row, title, curtime, refreshPending,
          clockPending, destroyed, cycle, callsAfterStop, titleWrites, dialogs, ticksAfterStop>>

Idle == [finished |-> FALSE, outcome |-> Fault, exc |-> "none"]
Finished(outcome, exc) == [finished |-> TRUE, outcome |-> outcome, exc |-> exc]

(* --------------------------- DisplayApp ------------------------------- *)

HiddenLabel == [text |-> Empty, grid |-> FALSE]

\* __init__: every pool holds ten labels, none of them gridded
InitDisp == [p \in Pools |-> [i \in Slots |-> HiddenLabel]]

config(D, pool, i, t) == [D EXCEPT ![pool][i].text = t]
grid(D, pool, i) == [D EXCEPT ![pool][i].grid = TRUE]
grid_remove(D, pool, i) == [D EXCEPT ![pool][i].grid = FALSE]
grid_info(D, pool, i) == D[pool][i].grid

KeyIndex(key) ==
    IF \E j \in 1 .. Len(PrimaryKeys) : PrimaryKeys[j] = key
    THEN CHOOSE j \in 1 .. Len(PrimaryKeys) : PrimaryKeys[j] = key
    ELSE Len(PrimaryKeys) + 1

PrimaryText(services, j) ==
    IF PrimaryKeys[j] = "platform"
    THEN (IF services.platform # None THEN services.platform ELSE Empty)
    ELSE services[PrimaryKeys[j]]

\* lines 266-285: the first upTo primary labels of slot i get their text and are gridded
RenderPrimary(D, services, i, upTo) ==
    [p \in Pools |->
        IF \E j \in 1 .. upTo : PrimaryPools[j] = p
        THEN LET j == CHOOSE j \in 1 .. upTo : PrimaryPools[j] = p
             IN  [D[p] EXCEPT ![i] = [text |-> PrimaryText(services, j), grid |-> TRUE]]
        ELSE D[p]]

\* lines 287-294: the cancellation sub-row.  R is [disp, display_row].
CancelBranch(R, services, i) ==
    IF services.isCancelled /\ services.cancelReason # None
    THEN [disp |-> grid(config(R.disp, "cancelreason_disp", i, services.cancelReason),
                        "cancelreason_disp", i),
          display_row |-> R.display_row + 1]
    ELSE IF grid_info(R.disp, "cancelreason_disp", i)
         THEN [R EXCEPT !.disp = grid_remove(R.disp, "cancelreason_disp", i)]
         ELSE R

\* mutant: the delay reason is shown whenever there is one
DelayBranchAnyDelay(R, services, i) ==
    IF services.delayReason # None
    THEN [disp |-> grid(config(R.disp, "delayreason_disp", i, services.delayReason),
                        "delayreason_disp", i),
          display_row |-> R.display_row + 1]
    ELSE IF grid_info(R.disp, "delayreason_disp", i)
         THEN [R EXCEPT !.disp = grid_remove(R.disp, "delayreason_disp", i)]
         ELSE R

\* lines 298-305: the delay sub-row
DelayBranch(R, services, i) ==
    IF services.cancelReason = None /\ services.delayReason # None
    THEN [disp |-> grid(config(R.disp, "delayreason_disp", i, services.delayReason),
                        "delayreason_disp", i),
          display_row |-> R.display_row + 1]
    ELSE IF grid_info(R.disp, "delayreason_disp", i)
         THEN [R EXCEPT !.disp = grid_remove(R.disp, "delayreason_disp", i)]
         ELSE R

\* lines 263-311: one pass of the loop body for the item services in slot i.
\* S is [disp, statusbar, display_row, exc].
RenderService(S, services, i) ==
    IF i >= NumLabels
    THEN [S EXCEPT !.exc = "IndexError"]
    ELSE
    LET k == services.missing
        KeyError(D, row) ==
            [disp |-> D, statusbar |-> UnknownKeyMsg(k), display_row |-> row + 1,
             exc |-> "none"]
        Done(R) ==
            [disp |-> R.disp, statusbar |-> S.statusbar, display_row |-> R.display_row + 1,
             exc |-> "none"]
        D5 == RenderPrimary(S.disp, services, i, Len(PrimaryKeys))
        R5 == [disp |-> D5, display_row |-> S.display_row]
    IN  IF KeyIndex(k) <= Len(PrimaryKeys)
        THEN KeyError(RenderPrimary(S.disp, services, i, KeyIndex(k) - 1), S.display_row)
        ELSE IF k = "isCancelled" \/ (k = "cancelReason" /\ services.isCancelled)
        THEN KeyError(D5, S.display_row)
        ELSE LET R6 == CancelBranch(R5, services, i)
             IN  IF k = "cancelReason"
                    \/ (k = "delayReason" /\ services.cancelReason = None)
                 THEN KeyError(R6.disp, R6.display_row)
                 ELSE Done(DelayBranch(R6, services, i))

\* mutant: the loop ends at the first item that raised KeyError
RECURSIVE ServiceLoopEndsAtKeyError(_, _, _)
ServiceLoopEndsAtKeyError(S, service, n) ==
    IF n > Len(service) \/ S.exc # "none"
       \/ (n > 1 /\ S.statusbar = UnknownKeyMsg(service[n - 1].missing))
    THEN S
    ELSE ServiceLoopEndsAtKeyError(RenderService(S, service[n], n - 1), service, n + 1)

\* line 261: for services in GSBR['trainServices']['service']
RECURSIVE ServiceLoop(_, _, _)
ServiceLoop(S, service, n) ==
    IF n > Len(service) \/ S.exc # "none"
    THEN S
    ELSE ServiceLoop(RenderService(S, service[n], n - 1), service, n + 1)

\* mutant: the blank-out leaves the two sub-rows of the slot gridded
RemovePrimaryOnly(D, item) ==
    [p \in Pools |->
        IF p \in {"cancelreason_disp", "delayreason_disp"}
        THEN D[p]
        ELSE [D[p] EXCEPT ![item].grid = FALSE]]

\* line 321-323: grid_remove on the seven labels of the slot
RemoveSlot(D, item) == [p \in Pools |-> [D[p] EXCEPT ![item].grid = FALSE]]

\* lines 316-332: blank out any unused rows following
RECURSIVE BlankLoop(_, _, _)
BlankLoop(S, item, service_numrows) ==
    IF item >= service_numrows
    THEN S
    ELSE IF item >= NumLabels
    THEN [S EXCEPT !.exc = "IndexError"]
    ELSE IF grid_info(S.disp, "time_disp", item)
    THEN BlankLoop([S EXCEPT !.disp = RemoveSlot(S.disp, item)], item + 1, service_numrows)
    ELSE S

\* lines 254-258: window title only needs changing on first access
TitleAfter(t) == IF t = InitialTitle THEN "Departures from " \o LocationName ELSE t
\* mutant: the title is written on every populating refresh
TitleWrittenAlways(t) == TRUE

TitleWritten(t) == t = InitialTitle

\* DisplayApp.display_info(GSBR), lines 234-336
display_info(D, status, t, GSBR, service_numrows) ==
    LET status1 == IF GSBR.isNone THEN "No data received" ELSE status
        data_OK == ~GSBR.isNone /\ GSBR.trainServices = "list"
        status2 == IF ~GSBR.isNone /\ GSBR.trainServices # "list"
                   THEN "No services available" ELSE status1
        S0 == [disp |-> D, statusbar |-> status2, display_row |-> FirstRow, exc |-> "none"]
        S1 == ServiceLoop(S0, GSBR.service, 1)
        S2 == IF S1.exc = "none" THEN BlankLoop(S1, Len(GSBR.service), service_numrows)
              ELSE S1
    IN  IF data_OK
        THEN [disp |-> S2.disp, statusbar |-> S2.statusbar, exc |-> S2.exc,
              title |-> TitleAfter(t), wrote |-> TitleWritten(t),
              statusbar_row |-> IF S2.exc = "none" THEN S2.display_row ELSE statusbar_row]
        ELSE [disp |-> D, statusbar |-> status2, exc |-> "none",
              title |-> t, wrote |-> FALSE, statusbar_row |-> FirstRow]

(* --------------------------- OpenLDBWSApp ----------------------------- *)

ServiceErrorMsg == "Web service error: fault"

\* getServiceInfo, lines 75-102: the status bar text it leaves
getServiceInfo(o) == IF o.exception THEN ServiceErrorMsg ELSE "OK"

(* ----------------------------- callbacks ------------------------------ *)

\* mutant: the dialog is shown whatever display_messages says
ShowsDialogOnEveryCall(display_messages, GSBR) ==
    ~GSBR.isNone /\ GSBR.nrccMessages

\* lines 397-398: the dialog of service messages
ShowsDialog(display_messages, GSBR) ==
    ~GSBR.isNone /\ display_messages /\ GSBR.nrccMessages

\* mutant: a running refresh does not queue the next one
RescheduleForgets(pending) ==
    IF Running
    THEN /\ refreshPending' = pending
         /\ UNCHANGED <<clockPending, destroyed>>
    ELSE /\ destroyed' = TRUE
         /\ refreshPending' = 0
         /\ clockPending' = 0

\* lines 402-407, reached only when display_info returned
Reschedule(pending) ==
    IF Running
    THEN /\ refreshPending' = pending + 1
         /\ UNCHANGED <<clockPending, destroyed>>
    ELSE \* root.destroy() deletes the widgets and the callbacks registered on them
         /\ destroyed' = TRUE
         /\ refreshPending' = 0
         /\ clockPending' = 0

\* update_display(display_messages), lines 392-407, with the service behaving as o.
\* pending is the number of refresh callbacks still queued while this one runs.
update_display(display_messages, o, pending) ==
    \E r \in {display_info(disp, getServiceInfo(o), title, o.response, rows)} :
        /\ callsAfterStop' = callsAfterStop + (IF Running THEN 0 ELSE 1)
        /\ dialogs' = IF ShowsDialog(display_messages, o.response)
                      THEN [dialogs EXCEPT ![display_messages] = @ + 1]
                      ELSE dialogs
        /\ disp' = r.disp
        /\ statusbar' = r.statusbar
        /\ statusbar_row' = r.statusbar_row
        /\ title' = r.title
        /\ titleWrites' = titleWrites + (IF r.wrote THEN 1 ELSE 0)
        /\ cycle' = Finished(o, r.exc)
        /\ IF r.exc # "none"
           THEN /\ refreshPending' = pending
                /\ UNCHANGED <<clockPending, destroyed>>
           ELSE Reschedule(pending)
        /\ UNCHANGED <<inifile, rows, Running, curtime, ticksAfterStop>>

\* ConfigParser.has_option(section, option)
has_option(name) == name \in inifile.options

\* lines 368-371: the test that raises KeyError
ConfigCheckRaises ==
    ~(has_option("station.crs") /\ has_option("SOAP.key")) /\ has_option("SOAP.wsdl")

\* lines 360-379: read StationBoard.ini and check it; exit on IOError or KeyError
ReadConfig ==
    /\ pc = "config"
    /\ pc' = IF ~inifile.readable \/ ConfigCheckRaises THEN "exited" ELSE "client"
    /\ UNCHANGED <<inifile, rows, Running, disp, statusbar, statusbar_row, title, curtime,
                   refreshPending, clockPending, destroyed, cycle, callsAfterStop,
                   titleWrites, dialogs, ticksAfterStop>>

\* mutant: the client and the window are built whatever the file holds
InstantiateAnyway ==
    /\ pc = "client"
    /\ pc' = "start"
    /\ UNCHANGED <<inifile, rows, Running, disp, statusbar, statusbar_row, title, curtime,
                   refreshPending, clockPending, destroyed, cycle, callsAfterStop,
                   titleWrites, dialogs, ticksAfterStop>>

\* lines 382-390: OpenLDBWSApp() reads config['SOAP']['wsdl'] (line 61) and
\* config['SOAP']['key'] (line 73), each a KeyError when missing; then
\* DisplayApp(...) and Running = True
Instantiate ==
    /\ pc = "client"
    /\ pc' = IF has_option("SOAP.wsdl") /\ has_option("SOAP.key") THEN "start" ELSE "crashed"
    /\ UNCHANGED <<inifile, rows, Running, disp, statusbar, statusbar_row, title, curtime,
                   refreshPending, clockPending, destroyed, cycle, callsAfterStop,
                   titleWrites, dialogs, ticksAfterStop>>

\* line 411: update_display(display_messages = True), before the main loop,
\* with the service answering from O
InitialUpdateFrom(O) ==
    /\ pc = "start"
    /\ \E o \in O :
          /\ update_display(TRUE, o, refreshPending)
          /\ pc' = IF cycle'.exc # "none" THEN "crashed" ELSE "clock"

InitialUpdate == InitialUpdateFrom(FirstOutcomes)

\* mutant: the clock queues itself whatever Running says
update_time_always_queues(pending) ==
    /\ clockPending' = pending + 1
    /\ curtime' = "%H:%M:%S"
    /\ ticksAfterStop' = ticksAfterStop + (IF Running THEN 0 ELSE 1)
    /\ UNCHANGED <<inifile, rows, Running, disp, statusbar, statusbar_row, title, refreshPending,
                   destroyed, cycle, callsAfterStop, titleWrites, dialogs>>

\* DisplayApp.update_time, lines 226-232.  pending is the number of clock
\* callbacks still queued while this one runs.
update_time(pending) ==
    /\ clockPending' = pending + (IF Running THEN 1 ELSE 0)
    /\ curtime' = "%H:%M:%S"
    /\ ticksAfterStop' = ticksAfterStop + (IF Running THEN 0 ELSE 1)
    /\ UNCHANGED <<inifile, rows, Running, disp, statusbar, statusbar_row, title, refreshPending,
                   destroyed, cycle, callsAfterStop, titleWrites, dialogs>>

\* line 412: display.update_time(), then line 414 enters the main loop
StartClock ==
    /\ pc = "clock"
    /\ update_time(clockPending)
    /\ pc' = "mainloop"

\* a pending after(15000, update_display) fires, with the service answering from O
RefreshTickFrom(O) ==
    /\ pc = "mainloop"
    /\ refreshPending > 0
    /\ \E o \in O :
          /\ update_display(FALSE, o, refreshPending - 1)
          /\ pc' = IF destroyed' THEN "done" ELSE pc

RefreshTick == RefreshTickFrom(TimerOutcomes)

\* a pending after(1000, update_time) fires
ClockTick ==
    /\ pc = "mainloop"
    /\ clockPending > 0
    /\ update_time(clockPending - 1)
    /\ pc' = pc

\* the two stop handlers share their body, lines 344-346 and 350-352
Stop ==
    /\ Running' = FALSE
    /\ statusbar' = stop_msg
    /\ cycle' = Idle

\* mutant: every key stops the program
handle_keyevent_any_key(keycode) ==
    /\ Stop
    /\ UNCHANGED <<inifile, rows, disp, statusbar_row, title, curtime, refreshPending, clockPending,
                   destroyed, callsAfterStop, titleWrites, dialogs, ticksAfterStop>>

\* DisplayApp.handle_keyevent, lines 340-346
handle_keyevent(keycode) ==
    /\ IF keycode = EscKeycode
       THEN Stop
       ELSE UNCHANGED <<Running, statusbar, cycle>>
    /\ UNCHANGED <<inifile, rows, disp, statusbar_row, title, curtime, refreshPending, clockPending,
                   destroyed, callsAfterStop, titleWrites, dialogs, ticksAfterStop>>

Keycodes == {EscKeycode, 36}

KeyEvent ==
    /\ pc = "mainloop"
    /\ \E keycode \in Keycodes : handle_keyevent(keycode)
    /\ pc' = pc

\* DisplayApp.handle_windowclose, lines 348-352
handle_windowclose ==
    /\ Stop
    /\ UNCHANGED <<inifile, rows, disp, statusbar_row, title, curtime, refreshPending, clockPending,
                   destroyed, callsAfterStop, titleWrites, dialogs, ticksAfterStop>>

WindowClose ==
    /\ pc = "mainloop"
    /\ handle_windowclose
    /\ pc' = pc

(* --------------------------- specification ---------------------------- *)

Init ==
    /\ pc = "config"
    /\ inifile \in IniFiles
    /\ rows \in RowsChoices
    /\ Running = TRUE
    /\ disp = InitDisp
    /\ statusbar = ""
    /\ statusbar_row = 0
    /\ title = InitialTitle
    /\ curtime = ""
    /\ refreshPending = 0
    /\ clockPending = 0
    /\ destroyed = FALSE
    /\ cycle = Idle
    /\ callsAfterStop = 0
    /\ titleWrites = 0
    /\ dialogs = [m \in BOOLEAN |-> 0]
    /\ ticksAfterStop = 0

Next ==
    \/ ReadConfig
    \/ Instantiate
    \/ InitialUpdate
    \/ StartClock
    \/ RefreshTick
    \/ ClockTick
    \/ KeyEvent
    \/ WindowClose

Spec == Init /\ [][Next]_vars

\* Tk's event loop runs a timer callback once its delay has passed
FairSpec == Spec /\ WF_vars(RefreshTick) /\ WF_vars(ClockTick)

(* ------------------- items cut short in the sub-rows ------------------- *)
\* The same program with the service also returning one-item lists whose item
\* lacks 'cancelReason' or 'delayReason', the keys looked up in lines 287-305.

CutKinds ==
    {Service(1, TRUE, None, DelayText, "cancelReason"),
     Service(1, FALSE, None, DelayText, "cancelReason"),
     Service(1, FALSE, None, None, "delayReason"),
     Service(1, TRUE, CancelText, None, "delayReason")}

CutOutcomes == {Returned(Board("list", <<x>>, TRUE)) : x \in CutKinds}

InitialUpdateCut == InitialUpdateFrom(FirstOutcomes \cup CutOutcomes)

RefreshTickCut == RefreshTickFrom(TimerOutcomes \cup CutOutcomes)

NextCut ==
    \/ ReadConfig
    \/ Instantiate
    \/ InitialUpdateCut
    \/ StartClock
    \/ RefreshTickCut
    \/ ClockTick
    \/ KeyEvent
    \/ WindowClose

SpecCut == Init /\ [][NextCut]_vars

(* ------------------------------ claims -------------------------------- *)

LastOutcome == cycle.outcome
LastGSBR == cycle.outcome.response
LastServices == cycle.outcome.response.service

\* the response of the last cycle passed the data_OK tests of display_info
Populating(o) == ~o.response.isNone /\ o.response.trainServices = "list"

Has(services, key) == services.missing # key
HasPrimary(services) == \A j \in 1 .. Len(PrimaryKeys) : Has(services, PrimaryKeys[j])

Shown(pool, i) == disp[pool][i].grid
Text(pool, i) == disp[pool][i].text
AllRowsHidden == \A p \in Pools : \A i \in Slots : ~Shown(p, i)

\* the items of the last cycle's response that were given a slot
RenderedItems ==
    IF cycle.finished /\ Populating(LastOutcome)
    THEN {n \in 1 .. Len(LastServices) : n <= NumLabels}
    ELSE {}

\* C1: once Running is False, no call of getServiceInfo is made any more.
NoServiceCallAfterStop == callsAfterStop = 0

\* C2: under fair timers, once Running is False the program ends: the window
\* is destroyed, the main loop has returned and no timer is left.
StopLeadsToExit ==
    (pc = "mainloop" /\ ~Running)
        ~> (pc = "done" /\ destroyed /\ refreshPending = 0 /\ clockPending = 0)

\* C3: after display_info(None) the status bar reads "No data received" and
\* no label of any slot is gridded.
NoneResponseHidesAllRows ==
    (cycle.finished /\ LastGSBR.isNone)
        => (statusbar = "No data received" /\ AllRowsHidden)

\* C4: after display_info of a response whose list of services is empty, None
\* or absent the status bar reads "No services available" and no label of any
\* slot is gridded.
NoServicesHidesAllRows ==
    (cycle.finished /\ ~LastGSBR.isNone
        /\ (LastGSBR.trainServices # "list" \/ LastServices = <<>>))
        => (statusbar = "No services available" /\ AllRowsHidden)

\* C5: after rendering a valid response of N <= rows items, exactly the
\* primary rows of slots 0..N-1 are gridded, slot i shows the fields of item i
\* of the response, and the primary rows of the slots from N on are hidden.
ValidResponse(g) ==
    /\ ~g.isNone
    /\ g.trainServices = "list"
    /\ Len(g.service) <= rows
    /\ \A n \in 1 .. Len(g.service) : g.service[n].missing = "none"

ShowsExactly(service) ==
    \A i \in Slots :
        \A j \in 1 .. Len(PrimaryPools) :
            IF i < Len(service)
            THEN /\ Shown(PrimaryPools[j], i)
                 /\ Text(PrimaryPools[j], i) = PrimaryText(service[i + 1], j)
            ELSE ~Shown(PrimaryPools[j], i)

ValidResponseShowsExactlyItsRows ==
    (cycle.finished /\ ValidResponse(LastGSBR)) => ShowsExactly(LastServices)

\* C6: an item rendered with isCancelled true and a cancelReason has its
\* cancellation sub-row gridded with that reason and its delay sub-row hidden,
\* with or without a delayReason.
CancelledItemShowsCancelReason ==
    \A n \in RenderedItems :
        LET services == LastServices[n] IN
        (/\ HasPrimary(services)
         /\ Has(services, "isCancelled") /\ Has(services, "cancelReason")
         /\ services.isCancelled /\ services.cancelReason # None)
            => (/\ Shown("cancelreason_disp", n - 1)
                /\ Text("cancelreason_disp", n - 1) = services.cancelReason
                /\ ~Shown("delayreason_disp", n - 1))

\* a cancelled item with both reasons was rendered in a slot whose delay
\* sub-row had shown a delay reason before
CancelledItemWitness ==
    /\ 1 \in RenderedItems
    /\ LastServices[1] = Service(1, TRUE, CancelText, DelayText, "none")
    /\ Shown("cancelreason_disp", 0)
    /\ Text("delayreason_disp", 0) = DelayText
    /\ ~Shown("delayreason_disp", 0)

\* C7: an item rendered with a delayReason and either isCancelled false or no
\* cancelReason has its delay sub-row gridded with that reason and its
\* cancellation sub-row hidden.
DelayedItemShowsDelayReason ==
    \A n \in RenderedItems :
        LET services == LastServices[n] IN
        (/\ services.missing = "none"
         /\ services.delayReason # None
         /\ (~services.isCancelled \/ services.cancelReason = None))
            => (/\ Shown("delayreason_disp", n - 1)
                /\ Text("delayreason_disp", n - 1) = services.delayReason
                /\ ~Shown("cancelreason_disp", n - 1))

\* C8: when the service call raised, the refresh cycle ends without an
\* exception and with the service error message in the status bar.
FailedCallShowsServiceError ==
    (cycle.finished /\ LastOutcome.exception)
        => (cycle.exc = "none" /\ statusbar = ServiceErrorMsg)

\* C9: after a refresh cycle whose service call raised or returned no data,
\* and while Running is True, exactly one update_display is queued and the
\* window is not destroyed.
NoData(o) ==
    \/ o.exception
    \/ o.response.isNone
    \/ o.response.trainServices # "list"
    \/ o.response.service = <<>>

FailedRefreshKeepsPolling ==
    (cycle.finished /\ NoData(LastOutcome) /\ Running)
        => (/\ cycle.exc = "none"
            /\ refreshPending = 1
            /\ ~destroyed
            /\ pc \in {"clock", "mainloop"})

\* a timer-driven refresh failed after an earlier one had shown rows
FailedRefreshWitness ==
    /\ pc = "mainloop"
    /\ cycle.finished /\ LastOutcome.exception
    /\ Running
    /\ Shown("time_disp", 0)
    /\ refreshPending = 1

\* C10: the window title is written once, by the first refresh that populates
\* the table, and not again.
TitleWrittenOnce ==
    /\ titleWrites <= 1
    /\ (titleWrites = 0) = (title = InitialTitle)
    /\ (titleWrites = 1) = (title = "Departures from " \o LocationName)
    /\ (cycle.finished /\ Populating(LastOutcome)) => titleWrites = 1

\* a populating refresh that followed the one that wrote the title
TitleWrittenOnceWitness ==
    /\ pc = "mainloop"
    /\ cycle.finished /\ Populating(LastOutcome)
    /\ titleWrites = 1
    /\ title # InitialTitle
    /\ \E i \in Slots : Text("time_disp", i) = <<"std", 2>> /\ ~(i < Len(LastServices))

\* C11: after a response with more items than the configured rows (or than
\* the ten labels of a pool) the refresh has ended without an exception, no
\* label of a slot at or past the configured rows is gridded, and while
\* Running is True the next update_display is queued.
SurplusEntriesNotDisplayed ==
    (cycle.finished /\ Populating(LastOutcome) /\ Len(LastServices) > rows)
        => (/\ cycle.exc = "none"
            /\ \A i \in Slots : i >= rows => \A p \in Pools : ~Shown(p, i)
            /\ Running => (refreshPending = 1 /\ ~destroyed))

\* an item that lacks a key every pass of the loop looks up
Faulty(services) == ~HasPrimary(services) \/ ~Has(services, "isCancelled")

SubRowShown(i) == Shown("cancelreason_disp", i) \/ Shown("delayreason_disp", i)

\* C12: when an item of a response lacks a key, the status bar names the
\* missing key, every complete item of that response is shown in its own slot
\* with its own fields, and the status bar sits below one grid row per item
\* (the faulty ones included) plus the sub-rows shown.
FaultyEntryDoesNotAbortBatch ==
    (/\ cycle.finished /\ Populating(LastOutcome) /\ cycle.exc = "none"
     /\ \E n \in 1 .. Len(LastServices) : Faulty(LastServices[n]))
        => (/\ \E n \in 1 .. Len(LastServices) :
                   /\ Faulty(LastServices[n])
                   /\ statusbar = UnknownKeyMsg(LastServices[n].missing)
            /\ \A n \in 1 .. Len(LastServices) :
                   LastServices[n].missing = "none"
                       => \A j \in 1 .. Len(PrimaryPools) :
                              /\ Shown(PrimaryPools[j], n - 1)
                              /\ Text(PrimaryPools[j], n - 1) = PrimaryText(LastServices[n], j)
            /\ statusbar_row = FirstRow + Len(LastServices)
                   + Cardinality({n \in 1 .. Len(LastServices) :
                                     ~Faulty(LastServices[n]) /\ SubRowShown(n - 1)}))

\* an item without 'std' was followed by a complete item, shown in slot 1
FaultyEntryWitness ==
    /\ cycle.finished /\ Populating(LastOutcome) /\ cycle.exc = "none"
    /\ Len(LastServices) = 2
    /\ LastServices[1].missing = "std"
    /\ LastServices[2] = Plain(2)
    /\ statusbar = UnknownKeyMsg("std")
    /\ Shown("time_disp", 1) /\ Text("time_disp", 1) = <<"std", 2>>
    /\ ~Shown("time_disp", 0)

\* OpenLDBWSApp() and DisplayApp(...) have returned
ClientAndWindowBuilt == pc \in {"start", "clock", "mainloop", "done"} \/ cycle.finished

\* C13: the service client and the window exist only when StationBoard.ini
\* could be read and holds all three of station/crs, SOAP/key and SOAP/wsdl;
\* with all three present startup is not ended by the configuration.
StartupNeedsAllOptions ==
    /\ ClientAndWindowBuilt => (inifile.readable /\ inifile.options = RequiredOptions)
    /\ (inifile.readable /\ inifile.options = RequiredOptions)
           => (pc # "exited" /\ (pc = "crashed" => cycle.finished))

\* SOAP/wsdl is missing: the test of lines 368-370 has let the file through
\* and OpenLDBWSApp() has ended the program
MissingOptionWitness ==
    /\ pc = "crashed"
    /\ ~cycle.finished
    /\ "SOAP.wsdl" \notin inifile.options
    /\ {"station.crs", "SOAP.key"} \subseteq inifile.options

\* C14: when a refresh callback has ended, either Running is True, exactly one
\* update_display is queued and the window is not destroyed, or Running is
\* False, the window is destroyed and no update_display is queued.
RefreshEndsInRearmOrDestroy ==
    (pc \in {"clock", "mainloop", "done"} /\ cycle.finished)
        => \/ (Running /\ refreshPending = 1 /\ ~destroyed)
           \/ (~Running /\ destroyed /\ refreshPending = 0)

\* C15: update_time leaves a clock callback queued only if Running is True
\* when it runs; after one has run with Running False none is queued and none
\* runs again; and update_time neither destroys the window, nor calls the
\* service, nor touches the refresh timer.
ClockStopsForGood ==
    /\ [](/\ ticksAfterStop <= 1
          /\ ticksAfterStop = 1 => clockPending = 0
          /\ clockPending <= 1)
    /\ [][ClockTick => /\ destroyed' = destroyed
                       /\ cycle' = cycle
                       /\ callsAfterStop' = callsAfterStop
                       /\ refreshPending' = refreshPending]_vars

\* the clock has stopped while the refresh timer is still pending
ClockStoppedWitness ==
    /\ pc = "mainloop"
    /\ ~Running
    /\ ticksAfterStop = 1
    /\ clockPending = 0
    /\ refreshPending = 1
    /\ ~destroyed

\* C16: messagebox.showinfo is called at most once, by the update_display
\* call of line 411 and never by a timer-driven one, whatever the responses.
DialogOnlyOnFirstCall ==
    /\ dialogs[FALSE] = 0
    /\ dialogs[TRUE] <= 1
    /\ pc \in {"config", "client", "start", "exited"} => dialogs[TRUE] = 0

\* a timer-driven refresh received service messages after a first call that
\* had shown no dialog
TimerRefreshWithMessagesWitness ==
    /\ pc = "mainloop"
    /\ cycle.finished
    /\ ~LastGSBR.isNone /\ LastGSBR.nrccMessages
    /\ dialogs[TRUE] = 0

\* C17: in every state the gridded time labels form a prefix of the slots: if
\* the time label of slot j is gridded, so is that of every slot before it.
ShownRowsFormPrefix ==
    \A j \in Slots :
        Shown("time_disp", j) => \A i \in Slots : i < j => Shown("time_disp", i)

\* C18: in the main loop at most one update_display and at most one
\* update_time are queued, and while Running is True exactly one of each.
TimersNeverMultiply ==
    pc = "mainloop"
        => (/\ refreshPending <= 1
            /\ clockPending <= 1
            /\ Running => (refreshPending = 1 /\ clockPending = 1))

\* C19: in every state and for every slot, the cancellation sub-row and the
\* delay sub-row are not both gridded, and a sub-row is gridded only if the
\* time label of the slot is.
SubRowsExclusiveAndAttached ==
    \A i \in Slots :
        /\ ~(Shown("cancelreason_disp", i) /\ Shown("delayreason_disp", i))
        /\ SubRowShown(i) => Shown("time_disp", i)

\* an item cut short at 'cancelReason' was rendered in a slot whose
\* cancellation sub-row an earlier refresh had gridded
CutShortWitness ==
    /\ cycle.finished /\ Populating(LastOutcome) /\ cycle.exc = "none"
    /\ LastServices = <<Service(1, TRUE, None, DelayText, "cancelReason")>>
    /\ statusbar = UnknownKeyMsg("cancelReason")
    /\ Shown("cancelreason_disp", 0)
    /\ ~Shown("delayreason_disp", 0)

\* what one step may do to Running
RunningChangesOnlyByStop ==
    /\ (Running' # Running) =>
          (/\ Running
           /\ ~Running'
           /\ (handle_keyevent(EscKeycode) \/ handle_windowclose))
    /\ (\E keycode \in Keycodes \ {EscKeycode} : handle_keyevent(keycode)) =>
          (Running' = Running)
    /\ ClockTick => (Running' = Running)

\* C20: Running is True until the main loop runs; it changes only from True
\* to False and only in handle_keyevent with the Esc keycode or in
\* handle_windowclose; any other key and update_time leave it as it is.
RunningOnlyCleared ==
    /\ [](pc \in {"config", "client", "start", "clock"} => Running)
    /\ [][RunningChangesOnlyByStop]_vars

\* the program was stopped, both timer callbacks ran after the stop and the
\* window is destroyed
StoppedAndDoneWitness ==
    /\ pc = "done"
    /\ ~Running
    /\ destroyed
    /\ ticksAfterStop = 1
    /\ callsAfterStop = 1

====
